---------------------------- MODULE Spec2Model ----------------------------
(***************************************************************************)
(* A model of meshrender's VirtualCamera (src/meshrender_backup/camera.py). *)
(*                                                                         *)
(* One camera object is followed from its construction through pose        *)
(* assignments, reads of the V and P properties and calls of resize.       *)
(*                                                                         *)
(* Python objects are records with a "type" field; None is NoneVal.        *)
(* Matrices are 4-tuples of rows, addressed 0-based through At.            *)
(*                                                                         *)
(* The numbers held in cam are the real-number values of the code's float  *)
(* expressions: exact rationals <<numerator, denominator>> in lowest terms *)
(* with a positive denominator.  Specification Spec follows these alone.   *)
(* Specification SpecFloat follows, beside them, the intrinsics as the     *)
(* IEEE 754 binary64 values the interpreter computes (variable fl), so     *)
(* that an equality of floats is decided on the floats themselves.         *)
(***************************************************************************)
EXTENDS Integers, Sequences, FiniteSets, TLC

VARIABLES
    cam,    \* the VirtualCamera object (NoneVal before construction)
    op,     \* the last operation: "init", "new", "setpose", "V", "P", "resize"
    args,   \* the arguments of the last operation
    ret,    \* the value the last operation returned (NoneVal if none)
    err,    \* the exception the last operation raised ("none" if none)
    pre,    \* the camera as it was before the last operation
    hist,   \* history: the intrinsics at construction, the successful resizes
            \* since, and whether every caller precondition was respected
    fl      \* the camera's intrinsics in binary64, where they are followed

vars == <<cam, op, args, ret, err, pre, hist, fl>>

----------------------------------------------------------------------------
(* Bounds of the model *)

\* window sizes 0..MaxDim x 0..MaxDim are passed to resize
MaxDim == 2

\* resize succeeds at most this many times on one camera
MaxResizes == 2

----------------------------------------------------------------------------
(* Exact rational arithmetic: the real-number value of the float expressions *)

Abs(x) == IF x < 0 THEN -x ELSE x

RECURSIVE GCD(_, _)
GCD(a, b) == IF b = 0 THEN a ELSE GCD(b, a % b)

\* n/d in lowest terms with a positive denominator (d # 0)
Rat(n, d) ==
    LET g == GCD(Abs(n), Abs(d))
        s == IF d < 0 THEN -1 ELSE 1
    IN  <<(s * n) \div g, (s * d) \div g>>

\* float(i)
Float(i) == <<i, 1>>

RAdd(a, b) == Rat(a[1] * b[2] + b[1] * a[2], a[2] * b[2])
RSub(a, b) == Rat(a[1] * b[2] - b[1] * a[2], a[2] * b[2])
RMul(a, b) == Rat(a[1] * b[1], a[2] * b[2])
RDiv(a, b) == Rat(a[1] * b[2], a[2] * b[1])
RNeg(a) == <<-a[1], a[2]>>
\* a < b (used by the history and the properties only)
RLess(a, b) == a[1] * b[2] < b[1] * a[2]
RIsZero(a) == a[1] = 0

----------------------------------------------------------------------------
(* Python values *)

NoneVal == [type |-> "NoneType"]

\* perception.CameraIntrinsics(frame, fx, fy, cx, cy, skew, height, width):
\* it stores what it is given and checks no range
CameraIntrinsics(frame, fx, fy, skew, cx, cy, height, width) ==
    [type |-> "CameraIntrinsics", frame |-> frame, fx |-> fx, fy |-> fy,
     skew |-> skew, cx |-> cx, cy |-> cy, height |-> height, width |-> width]

\* a (4,4) array
NdArray(m) == [type |-> "ndarray", m |-> m]

\* entry [i][j] of a matrix, 0-based as in the source
At(M, i, j) == M[i + 1][j + 1]

Identity4 ==
    << <<1, 0, 0, 0>>,
       <<0, 1, 0, 0>>,
       <<0, 0, 1, 0>>,
       <<0, 0, 0, 1>> >>

\* the product of two 4x4 integer matrices
MatMul(A, B) ==
    [i \in 1..4 |-> [j \in 1..4 |->
        A[i][1] * B[1][j] + A[i][2] * B[2][j] + A[i][3] * B[3][j] + A[i][4] * B[4][j]]]

----------------------------------------------------------------------------
(* VirtualCamera.__init__ *)

\* a narrower check: only a missing argument is refused
IsCameraIntrinsics_NotNone(intrinsics) == intrinsics.type # "NoneType"

\* isinstance(intrinsics, CameraIntrinsics)
IsCameraIntrinsics(intrinsics) == intrinsics.type = "CameraIntrinsics"

\* the clip distances stored the wrong way round
VirtualCamera_ClipSwapped(intrinsics, pose, z_near, z_far) ==
    [type |-> "VirtualCamera", intrinsics |-> intrinsics, pose |-> pose,
     z_near |-> z_far, z_far |-> z_near]

\* the object __init__ leaves behind: the four arguments, stored as given
VirtualCamera(intrinsics, pose, z_near, z_far) ==
    [type |-> "VirtualCamera", intrinsics |-> intrinsics, pose |-> pose,
     z_near |-> z_near, z_far |-> z_far]

----------------------------------------------------------------------------
(* VirtualCamera.V *)

\* V_inv[:3,1:3] *= -1
ReverseYZ(m) ==
    [i \in 1..4 |-> [j \in 1..4 |->
        IF i <= 3 /\ j \in {2, 3} THEN -m[i][j] ELSE m[i][j]]]

\* an unset pose read as the identity pose
V_UnsetIsIdentity(self) ==
    IF self.pose.type = "NoneType"
    THEN [err |-> "none", ret |-> NdArray(ReverseYZ(Identity4))]
    ELSE [err |-> "NameError", ret |-> NoneVal]

\* The outcome of reading V.  self.pose.copy() raises AttributeError on None.
\* Otherwise V_inv is built, and line 53 then reads V_inv_GL, a name bound
\* neither in the method nor in the module: NameError, whatever the pose.
V(self) ==
    IF self.pose.type = "NoneType"
    THEN [err |-> "AttributeError", ret |-> NoneVal]
    ELSE LET V_inv == ReverseYZ(self.pose.m)
         IN  [err |-> "NameError", ret |-> NoneVal]

----------------------------------------------------------------------------
(* VirtualCamera.P *)

P00(intrinsics) == RDiv(RMul(<<2, 1>>, intrinsics.fx), Float(intrinsics.width))
P11(intrinsics) == RDiv(RMul(<<2, 1>>, intrinsics.fy), Float(intrinsics.height))
P02(intrinsics) ==
    RSub(<<1, 1>>, RDiv(RMul(<<2, 1>>, intrinsics.cx), Float(intrinsics.width)))
P12(intrinsics) ==
    RSub(RDiv(RMul(<<2, 1>>, intrinsics.cy), Float(intrinsics.height)), <<1, 1>>)
P22(z_near, z_far) == RDiv(RNeg(RAdd(z_far, z_near)), RSub(z_far, z_near))

\* the sign of the last depth entry lost
P23_Positive(z_near, z_far) ==
    RDiv(RMul(RMul(<<2, 1>>, z_far), z_near), RSub(z_far, z_near))

P23(z_near, z_far) ==
    RDiv(RNeg(RMul(RMul(<<2, 1>>, z_far), z_near)), RSub(z_far, z_near))

\* the divisions of lines 62-68 raise ZeroDivisionError on a zero divisor
PDividesByZero(self) ==
    \/ self.intrinsics.width = 0
    \/ self.intrinsics.height = 0
    \/ RIsZero(RSub(self.z_far, self.z_near))

\* np.zeros((4,4)) with the seven assigned entries
Projection(intrinsics, z_near, z_far) ==
    << <<P00(intrinsics), <<0, 1>>, P02(intrinsics), <<0, 1>> >>,
       << <<0, 1>>, P11(intrinsics), P12(intrinsics), <<0, 1>> >>,
       << <<0, 1>>, <<0, 1>>, P22(z_near, z_far), P23(z_near, z_far) >>,
       << <<0, 1>>, <<0, 1>>, <<-1, 1>>, <<0, 1>> >> >>

\* a projection that also carries the camera's translation
P_WithTranslation(self) ==
    LET M == Projection(self.intrinsics, self.z_near, self.z_far)
    IN  IF PDividesByZero(self)
        THEN [err |-> "ZeroDivisionError", ret |-> NoneVal]
        ELSE IF self.pose.type = "NoneType"
        THEN [err |-> "none", ret |-> NdArray(M)]
        ELSE [err |-> "none",
              ret |-> NdArray([M EXCEPT ![1][4] = Float(self.pose.m[1][4])])]

\* the outcome of reading P
P(self) ==
    IF PDividesByZero(self)
    THEN [err |-> "ZeroDivisionError", ret |-> NoneVal]
    ELSE [err |-> "none",
          ret |-> NdArray(Projection(self.intrinsics, self.z_near, self.z_far))]

----------------------------------------------------------------------------
(* VirtualCamera.resize *)

\* the scale taken with integer division, float() forgotten
XScale_IntegerDivision(intrinsics, new_width) ==
    Float(new_width \div intrinsics.width)

\* x_scale = float(new_width) / self.intrinsics.width
XScale(intrinsics, new_width) == RDiv(Float(new_width), Float(intrinsics.width))

\* y_scale = float(new_height) / self.intrinsics.height
YScale(intrinsics, new_height) == RDiv(Float(new_height), Float(intrinsics.height))

\* float(n-1)/2: center_x, center_y, scaled_center_x, scaled_center_y
Center(n) == RDiv(Float(n - 1), <<2, 1>>)

\* the principal point scaled directly
NewCx_Naive(intrinsics, new_width) ==
    RMul(XScale(intrinsics, new_width), intrinsics.cx)

\* cx = scaled_center_x + x_scale * orig_cx_diff
NewCx(intrinsics, new_width) ==
    LET center_x == Center(intrinsics.width)
        orig_cx_diff == RSub(intrinsics.cx, center_x)
        scaled_center_x == Center(new_width)
    IN  RAdd(scaled_center_x, RMul(XScale(intrinsics, new_width), orig_cx_diff))

\* cy = scaled_center_y + y_scale * orig_cy_diff
NewCy(intrinsics, new_height) ==
    LET center_y == Center(intrinsics.height)
        orig_cy_diff == RSub(intrinsics.cy, center_y)
        scaled_center_y == Center(new_height)
    IN  RAdd(scaled_center_y, RMul(YScale(intrinsics, new_height), orig_cy_diff))

\* fx = self.intrinsics.fx * x_scale
NewFx(intrinsics, new_width) == RMul(intrinsics.fx, XScale(intrinsics, new_width))

\* fy scaled by its own axis
NewFy_Vertical(intrinsics, new_width, new_height) ==
    RMul(intrinsics.fy, YScale(intrinsics, new_height))

\* fy = self.intrinsics.fy * x_scale
NewFy(intrinsics, new_width, new_height) ==
    RMul(intrinsics.fy, XScale(intrinsics, new_width))

\* the skew left to CameraIntrinsics' default
ScaledIntrinsics_DefaultSkew(intrinsics, new_width, new_height) ==
    CameraIntrinsics(intrinsics.frame,
                     NewFx(intrinsics, new_width),
                     NewFy(intrinsics, new_width, new_height),
                     <<0, 1>>,
                     NewCx(intrinsics, new_width),
                     NewCy(intrinsics, new_height),
                     new_height, new_width)

\* scaled_intrinsics = CameraIntrinsics(frame=..., fx=fx, fy=fy, skew=...,
\*                                      cx=cx, cy=cy, height=new_height, width=new_width)
ScaledIntrinsics(intrinsics, new_width, new_height) ==
    CameraIntrinsics(intrinsics.frame,
                     NewFx(intrinsics, new_width),
                     NewFy(intrinsics, new_width, new_height),
                     intrinsics.skew,
                     NewCx(intrinsics, new_width),
                     NewCy(intrinsics, new_height),
                     new_height, new_width)

\* the divisions of lines 83-84 raise ZeroDivisionError on a zero divisor
ResizeDividesByZero(self) ==
    self.intrinsics.width = 0 \/ self.intrinsics.height = 0

----------------------------------------------------------------------------
(* Python floats as they are: IEEE 754 binary64, round to nearest, ties to  *)
(* even.  A finite float is [s, m, e] standing for s * m * 2^e with s in    *)
(* {-1, 0, 1} and m a 53-bit natural number (2^52 <= m < 2^53), zero being  *)
(* [s |-> 0, m |-> <<>>, e |-> 0].  Naturals beyond 31 bits are kept as     *)
(* little-endian sequences of 15-bit limbs without leading zero limbs.     *)
(* The finite range is not bounded: overflow, underflow and NaN do not     *)
(* occur for the magnitudes the callers pass below.                        *)

Limb == 2^15

RECURSIVE BTrim(_)
BTrim(a) ==
    IF a = <<>> THEN <<>>
    ELSE IF a[Len(a)] = 0 THEN BTrim(SubSeq(a, 1, Len(a) - 1)) ELSE a

RECURSIVE BFromInt(_)
BFromInt(n) == IF n = 0 THEN <<>> ELSE <<n % Limb>> \o BFromInt(n \div Limb)

RECURSIVE BAddCarry(_, _, _)
BAddCarry(a, b, c) ==
    IF a = <<>> /\ b = <<>>
    THEN IF c = 0 THEN <<>> ELSE <<c>>
    ELSE LET x == IF a = <<>> THEN 0 ELSE a[1]
             y == IF b = <<>> THEN 0 ELSE b[1]
             t == x + y + c
         IN  <<t % Limb>> \o
             BAddCarry(IF a = <<>> THEN <<>> ELSE Tail(a),
                       IF b = <<>> THEN <<>> ELSE Tail(b), t \div Limb)

BAdd(a, b) == BAddCarry(a, b, 0)

\* a - b - c on limbs, for a >= b + c; leading zero limbs are left in
RECURSIVE BSubBorrow(_, _, _)
BSubBorrow(a, b, c) ==
    IF a = <<>> THEN <<>>
    ELSE LET y == IF b = <<>> THEN 0 ELSE b[1]
             t == a[1] - y - c
         IN  <<IF t < 0 THEN t + Limb ELSE t>> \o
             BSubBorrow(Tail(a), IF b = <<>> THEN <<>> ELSE Tail(b),
                        IF t < 0 THEN 1 ELSE 0)

\* a - b for a >= b
BSub(a, b) == BTrim(BSubBorrow(a, b, 0))

\* a * k + c for a limb-sized k
RECURSIVE BMulLimb(_, _, _)
BMulLimb(a, k, c) ==
    IF a = <<>>
    THEN IF c = 0 THEN <<>> ELSE <<c>>
    ELSE LET t == a[1] * k + c
         IN  <<t % Limb>> \o BMulLimb(Tail(a), k, t \div Limb)

RECURSIVE BMul(_, _)
BMul(a, b) ==
    IF a = <<>> \/ b = <<>> THEN <<>>
    ELSE BTrim(BAdd(BMulLimb(a, b[1], 0), <<0>> \o BMul(a, Tail(b))))

\* a < b, compared from limb i downwards on numbers of equal length
RECURSIVE BLessFrom(_, _, _)
BLessFrom(a, b, i) ==
    IF i = 0 THEN FALSE
    ELSE IF a[i] # b[i] THEN a[i] < b[i] ELSE BLessFrom(a, b, i - 1)

BLess(a, b) ==
    IF Len(a) # Len(b) THEN Len(a) < Len(b) ELSE BLessFrom(a, b, Len(a))

\* a * 2^k
BShl(a, k) ==
    IF a = <<>> THEN <<>>
    ELSE [i \in 1..(k \div 15) |-> 0] \o BMulLimb(a, 2^(k % 15), 0)

RECURSIVE LimbBits(_)
LimbBits(x) == IF x = 0 THEN 0 ELSE 1 + LimbBits(x \div 2)

\* the number of bits of a
BBitLen(a) == IF a = <<>> THEN 0 ELSE 15 * (Len(a) - 1) + LimbBits(a[Len(a)])

\* <<quotient, remainder>> of n by d for a quotient below 2^(k+1), one
\* quotient bit at a time from bit k down; a = <<n, d, k, quotient so far>>
BDivMod[a \in Seq(Nat) \X Seq(Nat) \X Int \X Seq(Nat)] ==
    LET n == a[1]
        d == a[2]
        k == a[3]
        q == a[4]
    IN  IF k < 0 THEN <<q, n>>
        ELSE IF BLess(n, BShl(d, k))
        THEN BDivMod[<<n, d, k - 1, q>>]
        ELSE BDivMod[<<BSub(n, BShl(d, k)), d, k - 1, BAdd(q, BShl(<<1>>, k))>>]

FloatZero == [s |-> 0, m |-> <<>>, e |-> 0]

\* the 53-bit quotient of n by d, rounded to nearest, ties to even;
\* a = <<n, d>> with 2^52 <= n/d < 2^53
RoundedQuotient[a \in Seq(Nat) \X Seq(Nat)] ==
    LET qr == BDivMod[<<a[1], a[2], 52, <<>> >>]
    IN  IF \/ BLess(a[2], BShl(qr[2], 1))
           \/ (BShl(qr[2], 1) = a[2] /\ qr[1][1] % 2 = 1)
        THEN BAdd(qr[1], <<1>>)
        ELSE qr[1]

\* the float s * m * 2^e of a rounded quotient m, 2^52 <= m <= 2^53
Normal[a \in Int \X Seq(Nat) \X Int] ==
    IF BBitLen(a[2]) = 54
    THEN [s |-> a[1], m |-> BShl(<<1>>, 52), e |-> a[3] + 1]
    ELSE [s |-> a[1], m |-> a[2], e |-> a[3]]

\* the float nearest to s * (p / q) * 2^e for naturals p, q > 0, ties to
\* even; a = <<s, p, q, e>>
Rounded[a \in Int \X Seq(Nat) \X Seq(Nat) \X Int] ==
    LET s == a[1]
        p == a[2]
        q == a[3]
        e == a[4]
        \* p * 2^k / q lies in (2^52, 2^54): halve it when it has 54 bits
        k == 53 - (BBitLen(p) - BBitLen(q))
        n == IF k >= 0 THEN BShl(p, k) ELSE p
        d == IF k >= 0 THEN q ELSE BShl(q, -k)
    IN  IF s = 0 \/ p = <<>> THEN FloatZero
        ELSE IF BLess(n, BShl(d, 53))
        THEN Normal[<<s, RoundedQuotient[<<n, d>>], e - k>>]
        ELSE Normal[<<s, RoundedQuotient[<<n, BShl(d, 1)>>], e - k + 1>>]

RoundToFloat(s, p, q, e) == Rounded[<<s, p, q, e>>]

\* float(n) of an int
FloatOfInt(n) ==
    RoundToFloat(IF n < 0 THEN -1 ELSE IF n = 0 THEN 0 ELSE 1, BFromInt(Abs(n)), <<1>>, 0)

\* the float a decimal literal or float() gives for the rational n/d
FloatOfRat(r) ==
    RoundToFloat(IF r[1] < 0 THEN -1 ELSE IF r[1] = 0 THEN 0 ELSE 1,
                 BFromInt(Abs(r[1])), BFromInt(r[2]), 0)

\* a = <<x, y>>, two floats
Product[a \in Seq([s : Int, m : Seq(Nat), e : Int])] ==
    RoundToFloat(a[1].s * a[2].s, BMul(a[1].m, a[2].m), <<1>>, a[1].e + a[2].e)

Quotient[a \in Seq([s : Int, m : Seq(Nat), e : Int])] ==
    RoundToFloat(a[1].s * a[2].s, a[1].m, a[2].m, a[1].e - a[2].e)

Sum[a \in Seq([s : Int, m : Seq(Nat), e : Int])] ==
    LET x == a[1]
        y == a[2]
        e == IF x.e < y.e THEN x.e ELSE y.e
        xm == BShl(x.m, x.e - e)
        ym == BShl(y.m, y.e - e)
    IN  IF x.s = 0 THEN y
        ELSE IF y.s = 0 THEN x
        ELSE IF x.s = y.s THEN RoundToFloat(x.s, BAdd(xm, ym), <<1>>, e)
        ELSE IF xm = ym THEN FloatZero
        ELSE IF BLess(xm, ym) THEN RoundToFloat(y.s, BSub(ym, xm), <<1>>, e)
        ELSE RoundToFloat(x.s, BSub(xm, ym), <<1>>, e)

FMul(x, y) == Product[<<x, y>>]

FDiv(x, y) == Quotient[<<x, y>>]

FNeg(x) == [x EXCEPT !.s = -x.s]

FAdd(x, y) == Sum[<<x, y>>]

FSub(x, y) == FAdd(x, FNeg(y))

\* the fields of a CameraIntrinsics as the floats (and ints) it stores
FloatIntrinsics(intrinsics) ==
    [type |-> "CameraIntrinsics", frame |-> intrinsics.frame,
     fx |-> FloatOfRat(intrinsics.fx), fy |-> FloatOfRat(intrinsics.fy),
     skew |-> FloatOfRat(intrinsics.skew),
     cx |-> FloatOfRat(intrinsics.cx), cy |-> FloatOfRat(intrinsics.cy),
     height |-> intrinsics.height, width |-> intrinsics.width]

\* lines 83-101 of resize, float operation by float operation
FloatScaledIntrinsics(intrinsics, new_width, new_height) ==
    LET x_scale == FDiv(FloatOfInt(new_width), FloatOfInt(intrinsics.width))
        y_scale == FDiv(FloatOfInt(new_height), FloatOfInt(intrinsics.height))
        center_x == FDiv(FloatOfInt(intrinsics.width - 1), FloatOfInt(2))
        center_y == FDiv(FloatOfInt(intrinsics.height - 1), FloatOfInt(2))
        orig_cx_diff == FSub(intrinsics.cx, center_x)
        orig_cy_diff == FSub(intrinsics.cy, center_y)
        scaled_center_x == FDiv(FloatOfInt(new_width - 1), FloatOfInt(2))
        scaled_center_y == FDiv(FloatOfInt(new_height - 1), FloatOfInt(2))
        cx == FAdd(scaled_center_x, FMul(x_scale, orig_cx_diff))
        cy == FAdd(scaled_center_y, FMul(y_scale, orig_cy_diff))
        fx == FMul(intrinsics.fx, x_scale)
        fy == FMul(intrinsics.fy, x_scale)
    IN  [type |-> "CameraIntrinsics", frame |-> intrinsics.frame,
         fx |-> fx, fy |-> fy, skew |-> intrinsics.skew,
         cx |-> cx, cy |-> cy, height |-> new_height, width |-> new_width]

----------------------------------------------------------------------------
(* The values the callers pass *)

\* a 640x480 camera with its principal point at (320, 240)
VGAIntrinsics ==
    CameraIntrinsics("camera", <<500, 1>>, <<500, 1>>, <<0, 1>>,
                     <<320, 1>>, <<240, 1>>, 480, 640)

\* a small camera with unequal focal lengths, a skew and an off-center
\* principal point; a width or height of 0 makes a CameraIntrinsics value too
SmallIntrinsics(width, height) ==
    CameraIntrinsics("world", <<3, 1>>, <<2, 1>>, <<1, 1>>,
                     <<width, 1>>, <<1, 2>>, height, width)

IntrinsicsArguments ==
    {NoneVal, [type |-> "dict"], VGAIntrinsics}
        \cup {SmallIntrinsics(w, h) : w \in 0..MaxDim, h \in 0..MaxDim}

\* a quarter turn about z followed by the translation (1, 2, 3)
QuarterTurnPose ==
    << <<0, -1, 0, 1>>,
       <<1, 0, 0, 2>>,
       <<0, 0, 1, 3>>,
       <<0, 0, 0, 1>> >>

RigidPoses == {NdArray(Identity4), NdArray(QuarterTurnPose)}

PoseArguments == {NoneVal} \cup RigidPoses

\* <<z_near, z_far>>: ordered, equal, inverted
ClipArguments ==
    { << <<1, 10>>, <<10, 1>> >>,
      << <<2, 1>>, <<2, 1>> >>,
      << <<10, 1>>, <<2, 1>> >> }

\* <<new_width, new_height>>
SizeArguments ==
    ((0..MaxDim) \X (0..MaxDim)) \cup {<<640, 480>>, <<1280, 960>>}

----------------------------------------------------------------------------
(* The operations *)

Init ==
    /\ cam = NoneVal
    /\ op = "init"
    /\ args = <<>>
    /\ ret = NoneVal
    /\ err = "none"
    /\ pre = NoneVal
    /\ hist = [orig |-> NoneVal, resizes |-> 0, positive |-> FALSE, ordered |-> FALSE]
    /\ fl = NoneVal

\* VirtualCamera(intrinsics, pose, z_near, z_far)
New(intrinsics, pose, z_near, z_far) ==
    /\ cam.type = "NoneType"
    /\ op' = "new"
    /\ args' = [intrinsics |-> intrinsics, pose |-> pose,
                z_near |-> z_near, z_far |-> z_far]
    /\ pre' = cam
    /\ ret' = NoneVal
    /\ IF ~IsCameraIntrinsics(intrinsics)
       THEN /\ err' = "ValueError"
            /\ cam' = cam
            /\ hist' = hist
       ELSE /\ err' = "none"
            /\ cam' = VirtualCamera(intrinsics, pose, z_near, z_far)
            /\ hist' = [orig |-> intrinsics, resizes |-> 0,
                        positive |-> /\ intrinsics.type = "CameraIntrinsics"
                                     /\ intrinsics.width > 0
                                     /\ intrinsics.height > 0,
                        ordered |-> RLess(z_near, z_far)]

\* camera.pose = pose
SetPose(pose) ==
    /\ cam.type = "VirtualCamera"
    /\ op' = "setpose"
    /\ args' = [pose |-> pose]
    /\ pre' = cam
    /\ ret' = NoneVal
    /\ err' = "none"
    /\ cam' = [cam EXCEPT !.pose = pose]
    /\ hist' = hist

\* camera.V
ReadV ==
    /\ cam.type = "VirtualCamera"
    /\ op' = "V"
    /\ args' = <<>>
    /\ pre' = cam
    /\ ret' = V(cam).ret
    /\ err' = V(cam).err
    /\ cam' = cam
    /\ hist' = hist

\* camera.P
ReadP ==
    /\ cam.type = "VirtualCamera"
    /\ op' = "P"
    /\ args' = <<>>
    /\ pre' = cam
    /\ ret' = P(cam).ret
    /\ err' = P(cam).err
    /\ cam' = cam
    /\ hist' = hist

\* camera.resize(new_width, new_height)
Resize(new_width, new_height) ==
    /\ cam.type = "VirtualCamera"
    /\ hist.resizes < MaxResizes
    /\ op' = "resize"
    /\ args' = [new_width |-> new_width, new_height |-> new_height]
    /\ pre' = cam
    /\ ret' = NoneVal
    /\ IF ResizeDividesByZero(cam)
       THEN /\ err' = "ZeroDivisionError"
            /\ cam' = cam
            /\ hist' = [hist EXCEPT !.positive = @ /\ new_width > 0 /\ new_height > 0]
       ELSE /\ err' = "none"
            /\ cam' = [cam EXCEPT !.intrinsics =
                           ScaledIntrinsics(cam.intrinsics, new_width, new_height)]
            /\ hist' = [hist EXCEPT !.resizes = @ + 1,
                                    !.positive = @ /\ new_width > 0 /\ new_height > 0]

\* the camera as the arithmetic of real numbers has it
Next ==
    \/ \E intrinsics \in IntrinsicsArguments, pose \in PoseArguments,
          clip \in ClipArguments :
            New(intrinsics, pose, clip[1], clip[2]) /\ UNCHANGED fl
    \/ \E pose \in PoseArguments : SetPose(pose) /\ UNCHANGED fl
    \/ ReadV /\ UNCHANGED fl
    \/ ReadP /\ UNCHANGED fl
    \/ \E size \in SizeArguments : Resize(size[1], size[2]) /\ UNCHANGED fl

Spec == Init /\ [][Next]_vars

----------------------------------------------------------------------------
(* The same construction and resize with the intrinsics followed in        *)
(* binary64 as well, on small positive sizes                               *)

\* windows of at most MaxFloatDim pixels a side
MaxFloatDim == 3

\* one-row cameras with the principal point at x = 2
RowIntrinsics(width) ==
    CameraIntrinsics("world", <<3, 1>>, <<2, 1>>, <<1, 1>>,
                     <<2, 1>>, <<1, 2>>, 1, width)

FloatIntrinsicsArguments == {RowIntrinsics(w) : w \in 1..MaxFloatDim}

FloatSizeArguments == (1..MaxFloatDim) \X {1, MaxFloatDim}

NewFloat(intrinsics) ==
    /\ New(intrinsics, NoneVal, <<1, 10>>, <<10, 1>>)
    /\ fl' = FloatIntrinsics(intrinsics)

ResizeFloat(new_width, new_height) ==
    /\ Resize(new_width, new_height)
    /\ fl' = FloatScaledIntrinsics(fl, new_width, new_height)

NextFloat ==
    \/ \E intrinsics \in FloatIntrinsicsArguments : NewFloat(intrinsics)
    \/ \E size \in FloatSizeArguments : ResizeFloat(size[1], size[2])

SpecFloat == Init /\ [][NextFloat]_vars

----------------------------------------------------------------------------
(* Properties of resize *)

\* the last operation was resize(1280, 960) on a 640x480 camera with
\* cx = 320, cy = 240 and fx = fy
UniformDoubling ==
    /\ op = "resize"
    /\ args.new_width = 1280 /\ args.new_height = 960
    /\ pre.intrinsics.width = 640 /\ pre.intrinsics.height = 480
    /\ pre.intrinsics.cx = <<320, 1>> /\ pre.intrinsics.cy = <<240, 1>>
    /\ pre.intrinsics.fx = pre.intrinsics.fy

\* C1 as stated: resizing 640x480 to 1280x960 with cx = 320, cy = 240 and
\* fx = fy yields cx = 640, cy = 480, fx = fy = 2*fx_old, width 1280, height 960.
C1_AsStated ==
    UniformDoubling =>
        /\ err = "none"
        /\ cam.intrinsics.cx = <<640, 1>>
        /\ cam.intrinsics.cy = <<480, 1>>
        /\ cam.intrinsics.fx = RMul(<<2, 1>>, pre.intrinsics.fx)
        /\ cam.intrinsics.fy = RMul(<<2, 1>>, pre.intrinsics.fx)
        /\ cam.intrinsics.width = 1280
        /\ cam.intrinsics.height = 960

\* C1 amended: resizing 640x480 to 1280x960 with cx = 320, cy = 240 and
\* fx = fy yields cx = 640.5, cy = 480.5 (the half-pixel offset of (320, 240)
\* from the center (319.5, 239.5) is doubled), fx = fy = 2*fx_old, width 1280,
\* height 960.
C1_UniformDoubling ==
    UniformDoubling =>
        /\ err = "none"
        /\ cam.intrinsics.cx = <<1281, 2>>
        /\ cam.intrinsics.cy = <<961, 2>>
        /\ cam.intrinsics.fx = RMul(<<2, 1>>, pre.intrinsics.fx)
        /\ cam.intrinsics.fy = RMul(<<2, 1>>, pre.intrinsics.fx)
        /\ cam.intrinsics.width = 1280
        /\ cam.intrinsics.height = 960

C1_Witness ==
    /\ UniformDoubling
    /\ err = "none"
    /\ cam.intrinsics.fx = <<1000, 1>>

\* two or more successful resizes between positive sizes, the intrinsics
\* followed in binary64
ResizedTwice ==
    /\ op = "resize" /\ err = "none"
    /\ hist.resizes >= 2 /\ hist.positive
    /\ fl # NoneVal

\* C3 as stated: after two (or more) successful resizes of a camera, all
\* between positive sizes, the intrinsics the code holds are those of one
\* resize of the camera's original intrinsics straight to the final size.
C3_AsStated ==
    ResizedTwice =>
        fl = FloatScaledIntrinsics(FloatIntrinsics(hist.orig), fl.width, fl.height)

\* C3 amended: after two (or more) successful resizes of a camera, all
\* between positive sizes, the width, height, skew and frame label the code
\* holds are those of one resize of the original intrinsics straight to the
\* final size, and fx, fy, cx and cy are those of that one resize as real
\* numbers, that is, up to the rounding of the float operations.
C3_ResizeComposes ==
    ResizedTwice =>
        LET once == FloatScaledIntrinsics(FloatIntrinsics(hist.orig), fl.width, fl.height)
        IN  /\ fl.width = once.width /\ fl.width = cam.intrinsics.width
            /\ fl.height = once.height /\ fl.height = cam.intrinsics.height
            /\ fl.skew = once.skew
            /\ fl.frame = once.frame
            /\ cam.intrinsics =
                   ScaledIntrinsics(hist.orig, cam.intrinsics.width,
                                    cam.intrinsics.height)

C3_Witness ==
    /\ ResizedTwice
    /\ hist.resizes = 2
    /\ pre.intrinsics.width # hist.orig.width
    /\ pre.intrinsics.width # cam.intrinsics.width
    /\ cam.intrinsics.width * hist.orig.height # cam.intrinsics.height * hist.orig.width

\* C7: resize leaves the pose, z_near, z_far, the frame label and the skew
\* as they were.
C7_ResizeFrame ==
    op = "resize" =>
        /\ cam.pose = pre.pose
        /\ cam.z_near = pre.z_near
        /\ cam.z_far = pre.z_far
        /\ cam.intrinsics.frame = pre.intrinsics.frame
        /\ cam.intrinsics.skew = pre.intrinsics.skew

C7_Witness ==
    /\ op = "resize" /\ err = "none"
    /\ cam.intrinsics # pre.intrinsics
    /\ cam.pose \in RigidPoses
    /\ ~RIsZero(pre.intrinsics.skew)

\* C8: for positive old and new sizes resize succeeds and sets width and
\* height to the new ones, moves each principal-point coordinate to the new
\* center plus its old offset from the old center scaled by its own axis
\* factor, and scales both focal lengths by the horizontal factor.
C8_ResizeFormulas ==
    (/\ op = "resize"
     /\ pre.intrinsics.width > 0 /\ pre.intrinsics.height > 0
     /\ args.new_width > 0 /\ args.new_height > 0) =>
        LET old == pre.intrinsics
            sx  == RDiv(Float(args.new_width), Float(old.width))
            sy  == RDiv(Float(args.new_height), Float(old.height))
            half(n) == RDiv(Float(n - 1), <<2, 1>>)
        IN  /\ err = "none"
            /\ cam.intrinsics.width = args.new_width
            /\ cam.intrinsics.height = args.new_height
            /\ cam.intrinsics.cx =
                   RAdd(half(args.new_width), RMul(sx, RSub(old.cx, half(old.width))))
            /\ cam.intrinsics.cy =
                   RAdd(half(args.new_height), RMul(sy, RSub(old.cy, half(old.height))))
            /\ cam.intrinsics.fx = RMul(old.fx, sx)
            /\ cam.intrinsics.fy = RMul(old.fy, sx)

C8_Witness ==
    /\ op = "resize" /\ err = "none"
    /\ pre.intrinsics.width > 0 /\ pre.intrinsics.height > 0
    /\ args.new_width > 0 /\ args.new_height > 0
    /\ args.new_width * pre.intrinsics.height # args.new_height * pre.intrinsics.width
    /\ pre.intrinsics.cx # Center(pre.intrinsics.width)
    /\ pre.intrinsics.fx # pre.intrinsics.fy

----------------------------------------------------------------------------
(* Properties of construction and of the stored fields *)

\* C4 as stated: on every constructed camera z_near < z_far and the
\* intrinsics' width and height are positive.
C4_AsStated ==
    cam.type = "VirtualCamera" =>
        /\ RLess(cam.z_near, cam.z_far)
        /\ cam.intrinsics.width > 0
        /\ cam.intrinsics.height > 0

\* C4 amended: on every camera constructed with z_near < z_far and with
\* intrinsics of positive width and height, and resized only to positive
\* widths and heights, z_near < z_far and the intrinsics' width and height
\* are positive, whatever poses were assigned.
C4_Invariant ==
    (cam.type = "VirtualCamera" /\ hist.ordered /\ hist.positive) =>
        /\ RLess(cam.z_near, cam.z_far)
        /\ cam.intrinsics.width > 0
        /\ cam.intrinsics.height > 0

C4_Witness ==
    /\ cam.type = "VirtualCamera" /\ hist.ordered /\ hist.positive
    /\ hist.resizes = 2
    /\ op = "setpose"
    /\ cam.pose # pre.pose

\* C5 as stated: construction raises ValueError and leaves no camera whenever
\* the intrinsics argument is None, is no CameraIntrinsics, or has a
\* non-positive width or height.
C5_AsStated ==
    (/\ op = "new"
     /\ ~(/\ args.intrinsics.type = "CameraIntrinsics"
          /\ args.intrinsics.width > 0
          /\ args.intrinsics.height > 0)) =>
        /\ err = "ValueError"
        /\ cam = NoneVal

\* C5 amended: construction raises ValueError and leaves no camera whenever
\* the intrinsics argument is None or is no CameraIntrinsics.
C5_RejectsNonIntrinsics ==
    (op = "new" /\ args.intrinsics.type # "CameraIntrinsics") =>
        /\ err = "ValueError"
        /\ cam = NoneVal

C5_Witness ==
    /\ op = "new"
    /\ args.intrinsics.type = "dict"
    /\ err = "ValueError"
    /\ cam = NoneVal

----------------------------------------------------------------------------
(* Properties of V *)

\* C2: on a camera whose pose is a rigid transform M, reading V succeeds and
\* returns a matrix whose product with M is the identity.
C2_ViewInvertsPose ==
    (op = "V" /\ pre.pose \in RigidPoses) =>
        /\ err = "none"
        /\ ret.type = "ndarray"
        /\ MatMul(ret.m, pre.pose.m) = Identity4

\* C6: reading V on a camera whose pose is unset raises the error of using
\* the missing pose (AttributeError, not the NameError of a set pose) and
\* leaves the camera's intrinsics, pose, z_near and z_far as they were.
C6_ViewOfUnsetPose ==
    (op = "V" /\ pre.pose = NoneVal) =>
        /\ err = "AttributeError"
        /\ ret = NoneVal
        /\ cam = pre

C6_Witness ==
    /\ op = "V"
    /\ pre.pose = NoneVal
    /\ err = "AttributeError"
    /\ hist.resizes = 0
    /\ pre = VirtualCamera(hist.orig, NoneVal, pre.z_near, pre.z_far)

----------------------------------------------------------------------------
(* Properties of P *)

\* C9: P does not depend on the pose.  A read of P yields what P yields for
\* the same intrinsics, z_near and z_far under every other pose, set or
\* unset, and leaves the camera as it was; and assigning a pose changes
\* nothing of what the next read of P yields.
C9_ProjectionIgnoresPose ==
    /\ op = "P" =>
           /\ cam = pre
           /\ \A pose \in PoseArguments :
                  P([pre EXCEPT !.pose = pose]) = [err |-> err, ret |-> ret]
    /\ op = "setpose" => P(cam) = P(pre)

C9_Witness ==
    /\ op = "P" /\ err = "none"
    /\ cam.pose = NdArray(QuarterTurnPose)
    /\ hist.orig.frame = "world"
    /\ hist.resizes = 1
    /\ P([cam EXCEPT !.pose = NoneVal]).ret = ret

\* C10: for z_near < z_far and positive width and height, P has
\* P[0][0] = 2*fx/width, P[1][1] = 2*fy/height, P[0][2] = 1 - 2*cx/width,
\* P[1][2] = 2*cy/height - 1, P[2][2] = -(z_far+z_near)/(z_far-z_near),
\* P[3][2] = -1, P[2][3] = -2*z_far*z_near/(z_far-z_near) and zero elsewhere;
\* for z_near = 0.1 and z_far = 10, P[2][2] = -10.1/9.9 and P[2][3] = -2/9.9.
C10_ProjectionEntries ==
    (/\ op = "P"
     /\ RLess(cam.z_near, cam.z_far)
     /\ cam.intrinsics.width > 0 /\ cam.intrinsics.height > 0) =>
        LET intr == cam.intrinsics
            two == <<2, 1>>
            one == <<1, 1>>
            depth == RSub(cam.z_far, cam.z_near)
            assigned == {<<0, 0>>, <<1, 1>>, <<0, 2>>, <<1, 2>>, <<2, 2>>, <<3, 2>>, <<2, 3>>}
        IN  /\ err = "none"
            /\ At(ret.m, 0, 0) = RDiv(RMul(two, intr.fx), Float(intr.width))
            /\ At(ret.m, 1, 1) = RDiv(RMul(two, intr.fy), Float(intr.height))
            /\ At(ret.m, 0, 2) = RSub(one, RDiv(RMul(two, intr.cx), Float(intr.width)))
            /\ At(ret.m, 1, 2) = RSub(RDiv(RMul(two, intr.cy), Float(intr.height)), one)
            /\ At(ret.m, 2, 2) = RDiv(RNeg(RAdd(cam.z_far, cam.z_near)), depth)
            /\ At(ret.m, 3, 2) = RNeg(one)
            /\ At(ret.m, 2, 3) = RDiv(RNeg(RMul(RMul(two, cam.z_far), cam.z_near)), depth)
            /\ \A i \in 0..3, j \in 0..3 :
                   <<i, j>> \notin assigned => RIsZero(At(ret.m, i, j))
            /\ (cam.z_near = <<1, 10>> /\ cam.z_far = <<10, 1>>) =>
                   /\ At(ret.m, 2, 2) = <<-101, 99>>
                   /\ At(ret.m, 2, 3) = <<-20, 99>>

C10_Witness ==
    /\ op = "P" /\ err = "none"
    /\ cam.z_near = <<1, 10>> /\ cam.z_far = <<10, 1>>
    /\ ~RIsZero(cam.intrinsics.skew)
    /\ cam.intrinsics.width # cam.intrinsics.height
    /\ At(ret.m, 2, 2) = <<-101, 99>>

=============================================================================
